---- MODULE Spec2Model ----
(***************************************************************************)
(* Model of the class `calculations` of IQSmart.py: the calibration-driven *)
(* conversions between motor steps and engineering units, the derived      *)
(* optical calculations and the back focal length (BFL) correction fitter. *)
(*                                                                         *)
(* Python floats are modelled as exact rationals <<n, d>> in lowest terms  *)
(* with d > 0; <<1, 0>> and <<-1, 0>> stand for numpy's +inf and -inf,     *)
(* which only appear as the result of a numpy division by zero.            *)
(***************************************************************************)
EXTENDS Integers, Sequences, FiniteSets, TLC

VARIABLES calData, COC, cocArg, BFLCorrectionValues, BFLCorrectionCoeffs, res,
          writer, reader

vars == <<calData, COC, cocArg, BFLCorrectionValues, BFLCorrectionCoeffs, res,
          writer, reader>>

(***************************************************************************)
(* Rational arithmetic                                                     *)
(***************************************************************************)
Abs(n) == IF n < 0 THEN -n ELSE n

Sign(n) == IF n < 0 THEN -1 ELSE IF n > 0 THEN 1 ELSE 0

RECURSIVE GCD(_, _)
GCD(a, b) == IF b = 0 THEN a ELSE GCD(b, a % b)

\* the rational n/d in lowest terms; a zero denominator gives +-inf or nan
Q(n, d) ==
    IF d = 0 THEN <<Sign(n), 0>>
    ELSE LET g == GCD(Abs(n), Abs(d))
             s == Sign(d)
         IN  <<(s * n) \div g, (s * d) \div g>>

R(n) == <<n, 1>>

NaN == <<0, 0>>

IsFinite(a) == a[2] # 0

RNeg(a) == <<-a[1], a[2]>>

\* sums and products cancel common factors first, to keep the integers small
RAdd(a, b) ==
    IF a[2] = 0 /\ b[2] = 0 THEN (IF a = b THEN a ELSE NaN)
    ELSE IF a[2] = 0 THEN a
    ELSE IF b[2] = 0 THEN b
    ELSE LET g == GCD(a[2], b[2])
         IN  Q(a[1] * (b[2] \div g) + b[1] * (a[2] \div g), (a[2] \div g) * b[2])

RSub(a, b) == RAdd(a, RNeg(b))

RMul(a, b) ==
    IF a[2] = 0 \/ b[2] = 0 THEN Q(a[1] * b[1], 0)
    ELSE LET g == GCD(Abs(a[1]), b[2])
             h == GCD(Abs(b[1]), a[2])
         IN  Q((a[1] \div g) * (b[1] \div h), (a[2] \div h) * (b[2] \div g))

\* numpy float64 division a / b: +-inf or nan on a zero divisor.  Python's own
\* float division raises ZeroDivisionError there, which the callers model.
RDiv(a, b) ==
    IF b[1] = 0 \/ a[2] = 0 \/ b[2] = 0 THEN Q(a[1] * b[2], a[2] * b[1])
    ELSE RMul(a, Q(b[2], b[1]))

IsZero(a) == a = <<0, 1>>

RAbs(a) == <<Abs(a[1]), a[2]>>

\* comparisons; cross-multiplication also orders +-inf against finite values
RLt(a, b) == a[1] * b[2] < b[1] * a[2]

RLe(a, b) == a = b \/ RLt(a, b)

\* Python's min(a, b) and max(a, b): the first argument unless the second beats it
RMin(a, b) == IF RLt(b, a) THEN b ELSE a

RMax(a, b) == IF RLt(a, b) THEN b ELSE a

\* Python's int(): truncation toward zero of a finite value
Trunc(a) == Sign(a[1]) * (Abs(a[1]) \div a[2])

(***************************************************************************)
(* Sequence helpers                                                        *)
(***************************************************************************)
\* a list of integers as a list of rationals
RSeq(s) == [i \in DOMAIN s |-> R(s[i])]

\* a deletion that drops the last item whatever the index
RemoveLast(s, i) == SubSeq(s, 1, Len(s) - 1)

\* Python's `del s[i]` with the 1-based index i
RemoveAt(s, i) == [j \in 1..(Len(s) - 1) |-> IF j < i THEN s[j] ELSE s[j + 1]]

\* nppp.polyval(x, coef): coefficients low degree first, Horner's rule
RECURSIVE PolyValFrom(_, _, _)
PolyValFrom(x, coef, i) ==
    IF i > Len(coef) THEN R(0)
    ELSE RAdd(coef[i], RMul(x, PolyValFrom(x, coef, i + 1)))

PolyVal(x, coef) == PolyValFrom(x, coef, 1)

\* np.argsort(np.abs(np.subtract(cp1List, target)))[:2], 1-based; the sort of a
\* short array is stable, so ties keep the order of the list
Nearest(cp1List, target, skip) ==
    LET dist(i) == RAbs(RSub(cp1List[i], target))
        idx == DOMAIN cp1List \ skip
    IN  CHOOSE i \in idx :
            \A j \in idx : RLt(dist(i), dist(j)) \/ (dist(i) = dist(j) /\ i <= j)

Nearest2(cp1List, target) ==
    LET i0 == Nearest(cp1List, target, {})
    IN  <<i0, Nearest(cp1List, target, {i0})>>

(***************************************************************************)
(* Class constants and the status taxonomy                                 *)
(***************************************************************************)
INFINITY == 1000000

OD_MIN_DEFAULT == 2

\* the default circle of confusion, 0.020 mm
COC_DEFAULT == Q(20, 1000)

OK == "OK"

ERR_NO_CAL == "no cal data"

ERR_FL_MIN == "FL min"

ERR_FL_MAX == "FL max"

ERR_OD_MIN == "OD min"

ERR_OD_MAX == "OD max"

ERR_OD_VALUE == "OD value"

ERR_NA_MIN == "NA min"

ERR_NA_MAX == "NA max"

ERR_RANGE_MIN == "out of range-min"

ERR_RANGE_MAX == "out of range-max"

ERR_CALC == "calculation error"

WARN_VALUE == "value warning"

\* the outcome of a call: the returned tuple, or an exception leaving the method
Ret(t) == [raised |-> FALSE, ret |-> t]

Raise == [raised |-> TRUE, ret |-> <<>>]

\* `key in self.calData.keys()`
Has(cal, key) == key \in DOMAIN cal

(***************************************************************************)
(* interpolate: the two control points nearest the target, linearly        *)
(* interpolated or extrapolated.  The control points of every calibration  *)
(* below are distinct, so the interpolation factor is defined.             *)
(***************************************************************************)
\* lowerValue + interpolation_factor * (upperValue - lowerValue)
Lerp(lowerValue, interpolation_factor, upperValue) ==
    RAdd(lowerValue, RMul(interpolation_factor, RSub(upperValue, lowerValue)))

\* the curves of the control points valIdx[1] and valIdx[2] at xValue, interpolated
\* at cp1Target
InterpolateAt(coefList, cp1List, cp1Target, xValue, valIdx) ==
    Lerp(PolyVal(xValue, coefList[valIdx[1]]),
         RDiv(RSub(cp1Target, cp1List[valIdx[1]]),
              RSub(cp1List[valIdx[2]], cp1List[valIdx[1]])),
         PolyVal(xValue, coefList[valIdx[2]]))

interpolate(coefList, cp1List, cp1Target, xValue) ==
    IF Len(cp1List) <= 1 THEN PolyVal(cp1Target, coefList[1])
    ELSE InterpolateAt(coefList, cp1List, cp1Target, xValue,
                       Nearest2(cp1List, cp1Target))

(***************************************************************************)
(* Support functions                                                       *)
(***************************************************************************)
\* 1 / (2 * NA) on a numpy float
NA2FNum(NA) == RDiv(R(1), RMul(R(2), NA))

\* 1 / (2 * fNum) on a Python float, fNum # 0
FNum2NA(fNum) == RDiv(R(1), RMul(R(2), fNum))

(***************************************************************************)
(* Motor steps to engineering units                                        *)
(***************************************************************************)
zoomStep2FL(cal, zoomStep) ==
    IF ~Has(cal, "FL") THEN Ret(<<R(0), ERR_NO_CAL, R(0), R(0)>>)
    ELSE LET FL == PolyVal(R(zoomStep), cal.FL.coefInv[1])
             err == IF RLt(FL, cal.flMin) THEN ERR_FL_MIN
                    ELSE IF RLt(cal.flMax, FL) THEN ERR_FL_MAX
                    ELSE OK
         IN  Ret(<<FL, err, cal.flMin, cal.flMax>>)

DONT_CALC_MAX_OVER == 100

DONT_CALC_MIN_UNDER == 400

\* nppp.polyfit(xs, ys, 3) evaluated at x, for four points with distinct xs: the
\* cubic through the four points (Lagrange form)
CubicFitAt(xs, ys, x) ==
    LET basis(i, j) == IF j = i THEN R(1)
                       ELSE RDiv(RSub(x, xs[j]), RSub(xs[i], xs[j]))
        term(i) == RMul(ys[i], RMul(RMul(basis(i, 1), basis(i, 2)),
                                    RMul(basis(i, 3), basis(i, 4))))
    IN  RAdd(RAdd(term(1), term(2)), RAdd(term(3), term(4)))

focusStep2OD(cal, focusStep, zoomStep, BFL) ==
    IF ~Has(cal, "tracking") THEN Ret(<<R(0), ERR_NO_CAL, R(0), R(0)>>)
    ELSE LET cp1List == cal.tracking.cp1
             coefList == cal.tracking.coef
             focusStepList == [i \in DOMAIN cp1List |->
                                  RAdd(PolyVal(R(zoomStep), coefList[i]), R(BFL))]
             ODMin == IF Has(cal, "odMin") THEN cal.odMin ELSE R(OD_MIN_DEFAULT)
             ODMax == IF Has(cal, "odMax") THEN cal.odMax ELSE R(INFINITY)
             fs == R(focusStep)
         IN  IF RLt(RAdd(focusStepList[1], R(DONT_CALC_MAX_OVER)), fs)
                 THEN Ret(<<R(0), ERR_OD_MAX, ODMin, ODMax>>)
             ELSE IF RLt(fs, RSub(focusStepList[Len(focusStepList)], R(DONT_CALC_MIN_UNDER)))
                 THEN Ret(<<R(0), ERR_OD_MIN, ODMin, ODMax>>)
             ELSE LET OD == RDiv(R(1000), CubicFitAt(focusStepList, cp1List, fs))
                      err == IF RLt(OD, R(0)) THEN ERR_OD_MAX
                             ELSE IF RLt(OD, ODMin) THEN ERR_OD_MIN
                             ELSE OK
                  IN  Ret(<<OD, err, ODMin, ODMax>>)

\* irisStep2NA without the clamp to [NAMin, NAMax]
irisStep2NAUnclamped(cal, irisStep, FL, rangeLimit) ==
    IF ~Has(cal, "AP") THEN Ret(<<R(0), ERR_NO_CAL, R(0), R(0)>>)
    ELSE LET NA0 == interpolate(cal.AP.coef, cal.AP.cp1, FL, R(irisStep))
             NAMax == RMin(interpolate(cal.AP.coef, cal.AP.cp1, FL, R(0)),
                           RDiv(R(1), RMul(R(2), cal.fnum)))
             NAMin == RMax(interpolate(cal.AP.coef, cal.AP.cp1, FL, R(cal.irisSteps)),
                           Q(1, 100))
         IN  IF RLt(NAMax, NA0) THEN Ret(<<NA0, ERR_NA_MAX, NAMin, NAMax>>)
             ELSE IF RLt(NA0, NAMin) THEN Ret(<<NA0, ERR_NA_MIN, NAMin, NAMax>>)
             ELSE Ret(<<NA0, OK, NAMin, NAMax>>)

irisStep2NA(cal, irisStep, FL, rangeLimit) ==
    IF ~Has(cal, "AP") THEN Ret(<<R(0), ERR_NO_CAL, R(0), R(0)>>)
    ELSE LET NA0 == interpolate(cal.AP.coef, cal.AP.cp1, FL, R(irisStep))
             NAMinCurve == interpolate(cal.AP.coef, cal.AP.cp1, FL, R(cal.irisSteps))
             NAMaxCurve == interpolate(cal.AP.coef, cal.AP.cp1, FL, R(0))
             NAMaxCal == RDiv(R(1), RMul(R(2), cal.fnum))
             NAMax == RMin(NAMaxCurve, NAMaxCal)
             NAMin == RMax(NAMinCurve, Q(1, 100))
         IN  IF RLt(NAMax, NA0)
                 THEN Ret(<<IF rangeLimit THEN NAMax ELSE NA0, ERR_NA_MAX, NAMin, NAMax>>)
             ELSE IF RLt(NA0, NAMin)
                 THEN Ret(<<IF rangeLimit THEN NAMin ELSE NA0, ERR_NA_MIN, NAMin, NAMax>>)
             ELSE Ret(<<NA0, OK, NAMin, NAMax>>)

\* NA, NAMin and NAMax of irisStep2NA's result as F-numbers
FNumOf(r) == Ret(<<NA2FNum(r[1]), r[2], NA2FNum(r[3]), NA2FNum(r[4])>>)

irisStep2FNum(cal, irisStep, FL) ==
    IF ~Has(cal, "AP") THEN Ret(<<R(0), ERR_NO_CAL, R(0), R(0)>>)
    ELSE FNumOf(irisStep2NA(cal, irisStep, FL, TRUE).ret)

(***************************************************************************)
(* Engineering units to motor steps                                        *)
(***************************************************************************)
\* FL2ZoomStep reporting the range error without limiting the step
FL2ZoomStepUnclamped(cal, FL) ==
    IF ~Has(cal, "FL") THEN Ret(<<0, ERR_NO_CAL>>)
    ELSE LET zoomStep == Trunc(PolyVal(FL, cal.FL.coef[1]))
         IN  IF zoomStep < 0 THEN Ret(<<zoomStep, ERR_RANGE_MIN>>)
             ELSE IF zoomStep > cal.zoomSteps THEN Ret(<<zoomStep, ERR_RANGE_MAX>>)
             ELSE Ret(<<zoomStep, OK>>)

\* FL2ZoomStep reading the polynomial of the other direction
FL2ZoomStepInverse(cal, FL) ==
    IF ~Has(cal, "FL") THEN Ret(<<0, ERR_NO_CAL>>)
    ELSE LET v == PolyVal(FL, cal.FL.coefInv[1])
         IN  IF ~IsFinite(v) THEN Raise
             ELSE IF Trunc(v) < 0 THEN Ret(<<0, ERR_RANGE_MIN>>)
             ELSE IF Trunc(v) > cal.zoomSteps THEN Ret(<<cal.zoomSteps, ERR_RANGE_MAX>>)
             ELSE Ret(<<Trunc(v), OK>>)

\* int() of a nan or an infinity raises
FL2ZoomStep(cal, FL) ==
    IF ~Has(cal, "FL") THEN Ret(<<0, ERR_NO_CAL>>)
    ELSE LET v == PolyVal(FL, cal.FL.coef[1])
             zoomStep == Trunc(v)
             zoomStepMax == cal.zoomSteps
         IN  IF ~IsFinite(v) THEN Raise
             ELSE IF zoomStep < 0 THEN Ret(<<0, ERR_RANGE_MIN>>)
             ELSE IF zoomStep > zoomStepMax THEN Ret(<<zoomStepMax, ERR_RANGE_MAX>>)
             ELSE Ret(<<zoomStep, OK>>)

\* OD2FocusStep reporting the range error without limiting the step
OD2FocusStepUnclamped(cal, OD, zoomStep, BFL) ==
    IF ~Has(cal, "tracking") THEN Ret(<<0, ERR_NO_CAL>>)
    ELSE IF IsZero(OD) THEN Raise
    ELSE LET focusStep == Trunc(interpolate(cal.tracking.coef, cal.tracking.cp1,
                                            RDiv(R(1000), OD), R(zoomStep))) + BFL
         IN  IF focusStep < 0 THEN Ret(<<focusStep, ERR_RANGE_MIN>>)
             ELSE IF focusStep > cal.focusSteps THEN Ret(<<focusStep, ERR_RANGE_MAX>>)
             ELSE Ret(<<focusStep, OK>>)

\* 1000 / OD is a division of Python numbers: ZeroDivisionError for OD = 0
OD2FocusStep(cal, OD, zoomStep, BFL) ==
    IF ~Has(cal, "tracking") THEN Ret(<<0, ERR_NO_CAL>>)
    ELSE IF IsZero(OD) THEN Raise
    ELSE LET invOD == RDiv(R(1000), OD)
             focusStep == Trunc(interpolate(cal.tracking.coef, cal.tracking.cp1,
                                            invOD, R(zoomStep))) + BFL
             focusStepMax == cal.focusSteps
         IN  IF focusStep < 0 THEN Ret(<<0, ERR_RANGE_MIN>>)
             ELSE IF focusStep > focusStepMax THEN Ret(<<focusStepMax, ERR_RANGE_MAX>>)
             ELSE Ret(<<focusStep, OK>>)

ODFL2FocusStep(cal, OD, FL, BFL) ==
    IF DOMAIN cal = {} THEN Ret(<<0, ERR_NO_CAL>>)
    ELSE LET z == FL2ZoomStep(cal, FL)
         IN  IF z.raised THEN Raise ELSE OD2FocusStep(cal, OD, z.ret[1], BFL)

\* optimize.newton(merit, 20, args=(coef, NA)) without a derivative is the secant
\* method: on a line of non-zero slope it lands on the root, on a constant merit
\* function it raises RuntimeError.  The AP curves of the calibrations below are
\* of degree at most one.
Newton(coef, target) ==
    IF Len(coef) = 2 /\ ~IsZero(coef[2])
        THEN [ok |-> TRUE, root |-> RDiv(RSub(target, coef[1]), coef[2])]
    ELSE [ok |-> FALSE, root |-> R(0)]

\* the iris step of one control point's curve for the target NA, with its status
\* ("" when the status is left as it was)
IrisStepAt(cal, coef, NA) ==
    LET NAMax == PolyVal(R(0), coef)
        n == Newton(coef, NA)
    IN  IF RLt(NA, NAMax)
            THEN IF n.ok THEN [step |-> n.root, err |-> ""]
                 ELSE [step |-> R(cal.irisSteps), err |-> ERR_NA_MIN]
        ELSE [step |-> R(0), err |-> ERR_NA_MAX]

(***************************************************************************)
(* numpy float64 for the one place where the code compares floats for      *)
(* equality: closestFL = (cp1 - FL) + FL, looked up with list.index.  A     *)
(* float is a sign and a magnitude bits * 2^exp, bits a sequence of binary  *)
(* digits, most significant first; every operation rounds to nearest, ties  *)
(* to even.  The values here are far from the subnormal and overflow ranges.*)
(***************************************************************************)
MantissaBits == 53

Zeros(k) == [i \in 1..k |-> 0]

StripZeros(bits) ==
    IF \A i \in DOMAIN bits : bits[i] = 0 THEN <<>>
    ELSE SubSeq(bits, CHOOSE i \in DOMAIN bits :
                          bits[i] = 1 /\ \A j \in 1..(i - 1) : bits[j] = 0,
                Len(bits))

\* a + b of two digit sequences of one length; the carry into digit i comes from
\* the nearest lower digit where both are 1, through digits where one is
AddBits(a, b) ==
    LET carry(i) == IF \E j \in (i + 1)..Len(a) :
                           /\ a[j] + b[j] = 2
                           /\ \A k \in (i + 1)..(j - 1) : a[k] + b[k] = 1
                    THEN 1 ELSE 0
    IN  (IF carry(0) = 1 THEN <<1>> ELSE <<>>)
            \o [i \in 1..Len(a) |-> (a[i] + b[i] + carry(i)) % 2]

\* a - b for a >= b; the borrow from digit i comes from the nearest lower digit
\* where a is below b, through digits where they are equal
SubBits(a, b) ==
    LET borrow(i) == IF \E j \in (i + 1)..Len(a) :
                            /\ a[j] < b[j]
                            /\ \A k \in (i + 1)..(j - 1) : a[k] = b[k]
                     THEN 1 ELSE 0
    IN  [i \in 1..Len(a) |-> (a[i] - b[i] - borrow(i)) % 2]

BitsLess(a, b) ==
    \E i \in DOMAIN a : a[i] < b[i] /\ \A j \in 1..(i - 1) : a[j] = b[j]

\* round to nearest, ties to even: the digits kept go up when the first digit
\* dropped is 1 and either the last digit kept or a later digit dropped is 1
RoundsUp(b) ==
    /\ b[MantissaBits + 1] = 1
    /\ \/ b[MantissaBits] = 1
       \/ \E i \in (MantissaBits + 2)..Len(b) : b[i] = 1

\* the MantissaBits leading digits of b, rounded; one digit longer when the
\* rounding carries out of the leading digit
Rounded(b) ==
    IF RoundsUp(b)
        THEN AddBits(SubSeq(b, 1, MantissaBits), Zeros(MantissaBits - 1) \o <<1>>)
    ELSE SubSeq(b, 1, MantissaBits)

\* the float of sign neg, digits sum (MantissaBits of them, or one more whose
\* last is 0), the first digit dropped having the exponent exp
Carried(neg, sum, exp) ==
    [neg |-> neg, bits |-> SubSeq(sum, 1, MantissaBits),
     exp |-> exp + (Len(sum) - MantissaBits)]

\* the float nearest to (-1)^neg * b * 2^exp, b without leading zeros
RoundStripped(neg, b, exp) ==
    IF Len(b) = 0 THEN [neg |-> FALSE, bits |-> <<>>, exp |-> 0]
    ELSE IF Len(b) <= MantissaBits
        THEN [neg |-> neg, bits |-> b \o Zeros(MantissaBits - Len(b)),
              exp |-> exp - (MantissaBits - Len(b))]
    ELSE Carried(neg, Rounded(b), exp + (Len(b) - MantissaBits))

\* the float nearest to (-1)^neg * bits * 2^exp
RoundFloat(neg, bits, exp) == RoundStripped(neg, StripZeros(bits), exp)

\* 2^k mod d for k up to 60
Pow2Mod(k, d) == ((2^(k \div 2) % d) * (2^(k - k \div 2) % d)) % d

\* the k-th binary digit of n / d below the point, for 0 <= n < d
Digit(n, d, k) == (2 * ((n * Pow2Mod(k - 1, d)) % d)) \div d

\* the binary digits of n / d for d <= n < 2d: the leading 1, MantissaBits digits
\* below the point, and a sticky digit for what is left
Expand(n, d) ==
    <<1>> \o [k \in 1..MantissaBits |-> Digit(n - d, d, k)]
          \o <<IF ((n - d) * Pow2Mod(MantissaBits, d)) % d = 0 THEN 0 ELSE 1>>

\* the exponent of the leading binary digit of n / d
RECURSIVE Log2Floor(_, _)
Log2Floor(n, d) ==
    IF n >= 2 * d THEN Log2Floor(n, 2 * d) + 1
    ELSE IF n < d THEN Log2Floor(2 * n, d) - 1
    ELSE 0

\* the float nearest to the rational q # 0 whose leading binary digit has the
\* exponent lead
FloatScaled(q, lead) ==
    RoundFloat(q[1] < 0,
               Expand(IF lead < 0 THEN Abs(q[1]) * 2^(-lead) ELSE Abs(q[1]),
                      IF lead > 0 THEN q[2] * 2^lead ELSE q[2]),
               lead - MantissaBits - 1)

\* float(q): the float64 nearest to the rational q
Float(q) ==
    IF q[1] = 0 THEN RoundFloat(FALSE, <<>>, 0)
    ELSE FloatScaled(q, Log2Floor(Abs(q[1]), q[2]))

\* the sum of the magnitudes a and b, digit sequences of one length with the
\* signs xneg and yneg, the last digit having the exponent exp
AddMagnitudes(xneg, a, yneg, b, exp) ==
    IF xneg = yneg THEN RoundFloat(xneg, AddBits(a, b), exp)
    ELSE IF BitsLess(a, b) THEN RoundFloat(yneg, SubBits(b, a), exp)
    ELSE RoundFloat(xneg, SubBits(a, b), exp)

\* the digits of the float x from the exponent top - 1 down to the exponent exp
Aligned(x, exp, top) ==
    Zeros(top - x.exp - Len(x.bits)) \o x.bits \o Zeros(x.exp - exp)

Smaller(m, n) == IF m < n THEN m ELSE n

Larger(m, n) == IF m > n THEN m ELSE n

\* x + y of two floats other than zero, both aligned to the exponents exp..(top - 1)
FloatAddAligned(x, y, exp, top) ==
    AddMagnitudes(x.neg, Aligned(x, exp, top), y.neg, Aligned(y, exp, top), exp)

\* x + y of two floats
FloatAdd(x, y) ==
    IF x.bits = <<>> THEN y
    ELSE IF y.bits = <<>> THEN x
    ELSE FloatAddAligned(x, y, Smaller(x.exp, y.exp),
                         Larger(x.exp + Len(x.bits), y.exp + Len(y.bits)))

\* np.add(np.subtract(cp1, FL)[i], FL): the control point as closestFL holds it
ClosestFL(cp, FL) ==
    FloatAdd(FloatAdd(Float(cp), [Float(FL) EXCEPT !.neg = ~Float(FL).neg]), Float(FL))

\* floats.index(f), 1-based; 0 for the ValueError of a value that is not in the list
IndexIn(floats, f) ==
    IF \E i \in DOMAIN floats : floats[i] = f
        THEN CHOOSE i \in DOMAIN floats :
                 floats[i] = f /\ \A j \in 1..(i - 1) : floats[j] # f
    ELSE 0

\* cp1.index(f) for the control points as the floats the list holds
IndexOf(cp1, f) == IndexIn([i \in DOMAIN cp1 |-> Float(cp1[i])], f)

\* closestFL holds the two nearest control points in list order, each taken
\* through (cp - FL) + FL; closestFL[1] of a one-point list raises IndexError,
\* the lookup of a value the list does not hold raises ValueError
\* the iris steps a and b of the control points cp[ia] and cp[ib] interpolated at
\* FL; the status is the one the later of the two curves set, if any
IrisStepBetween(cp, FL, ia, ib, a, b) ==
    Ret(<<Trunc(Lerp(a.step, RDiv(RSub(FL, cp[ia]), RSub(cp[ib], cp[ia])), b.step)),
          IF b.err # "" THEN b.err ELSE IF a.err # "" THEN a.err ELSE OK>>)

\* the loop over closestFL, ia and ib the list indices of its two values
IrisStepOf(cal, NA, FL, ia, ib) ==
    IF ia = 0 \/ ib = 0 THEN Raise
    ELSE IrisStepBetween(cal.AP.cp1, FL, ia, ib,
                         IrisStepAt(cal, cal.AP.coef[ia], NA),
                         IrisStepAt(cal, cal.AP.coef[ib], NA))

\* closestFL for the two nearest control points near, taken in list order
IrisStepNear(cal, NA, FL, near) ==
    IrisStepOf(cal, NA, FL,
               IndexOf(cal.AP.cp1, ClosestFL(cal.AP.cp1[Smaller(near[1], near[2])], FL)),
               IndexOf(cal.AP.cp1, ClosestFL(cal.AP.cp1[Larger(near[1], near[2])], FL)))

NA2IrisStep(cal, NA, FL) ==
    IF ~Has(cal, "AP") THEN Ret(<<0, ERR_NO_CAL>>)
    ELSE IF Len(cal.AP.cp1) < 2 THEN Raise
    ELSE IrisStepNear(cal, NA, FL, Nearest2(cal.AP.cp1, FL))

\* FNum2NA divides Python floats: ZeroDivisionError for fNum = 0
fNum2IrisStep(cal, fNum, FL) ==
    IF ~Has(cal, "AP") THEN Ret(<<0, ERR_NO_CAL>>)
    ELSE IF IsZero(fNum) THEN Raise
    ELSE NA2IrisStep(cal, FNum2NA(fNum), FL)

(***************************************************************************)
(* Angle of view, field of view                                            *)
(***************************************************************************)
calcAOV(cal, sensorWd, FL) ==
    IF ~Has(cal, "dist") THEN Ret(<<R(0), ERR_NO_CAL>>)
    ELSE LET semiWd == RDiv(sensorWd, R(2))
             semiAOV == RAbs(interpolate(cal.dist.coef, cal.dist.cp1, FL, semiWd))
         IN  Ret(<<RMul(R(2), semiAOV), OK>>)

\* np.sort of a list of distinct control points
RECURSIVE SortAsc(_)
SortAsc(s) ==
    IF Len(s) = 0 THEN <<>>
    ELSE LET m == CHOOSE i \in DOMAIN s : \A j \in DOMAIN s : RLe(s[i], s[j])
         IN  <<s[m]>> \o SortAsc(RemoveAt(s, m))

\* an OD argument of type str ("skip the focus calculation")
StrOD == <<0, 0, 0>>

IsStr(OD) == Len(OD) = 3

\* the loop over the sorted focal lengths: FLLower is the last one whose maximum
\* angle of view exceeds the target, FLUpper the first one that does not;
\* <<>> stands for None
RECURSIVE Bracket(_, _, _, _, _, _, _)
Bracket(cal, AOV, IH, FLList, i, FLLower, FLUpper) ==
    IF i > Len(FLList) THEN <<FLLower, FLUpper>>
    ELSE LET AOVMax == calcAOV(cal, IH, FLList[i]).ret[1]
         IN  IF RLt(AOV, AOVMax)
                 THEN Bracket(cal, AOV, IH, FLList, i + 1, <<FLList[i], AOVMax>>, FLUpper)
             ELSE IF FLUpper = <<>>
                 THEN Bracket(cal, AOV, IH, FLList, i + 1, FLLower, <<FLList[i], AOVMax>>)
             ELSE Bracket(cal, AOV, IH, FLList, i + 1, FLLower, FLUpper)

\* the bracket after the two extrapolation cases; FLList[1] and FLList[-2] of a
\* one-point list raise IndexError
\* Extrapolated taking the far end of the list as the second point
ExtrapolatedFromEnds(cal, IH, FLList, br) ==
    IF br[1] = <<>>
        THEN <<br[2], <<FLList[Len(FLList)], calcAOV(cal, IH, FLList[Len(FLList)]).ret[1]>> >>
    ELSE IF br[2] = <<>>
        THEN << <<FLList[1], calcAOV(cal, IH, FLList[1]).ret[1]>>, br[1] >>
    ELSE br

Extrapolated(cal, IH, FLList, br) ==
    IF br[1] = <<>>
        THEN <<br[2], <<FLList[2], calcAOV(cal, IH, FLList[2]).ret[1]>> >>
    ELSE IF br[2] = <<>>
        THEN << <<FLList[Len(FLList) - 1], calcAOV(cal, IH, FLList[Len(FLList) - 1]).ret[1]>>,
                br[1] >>
    ELSE br

\* the focal length interpolated between the bracket (numpy arithmetic: inf or
\* nan when both ends have the same angle of view)
FLValueOf(AOV, br) ==
    Lerp(br[1][1], RDiv(RSub(AOV, br[1][2]), RSub(br[2][2], br[1][2])), br[2][1])

\* the range status of the interpolated focal length
RangeStatus(cal, FLValue) ==
    IF RLt(FLValue, cal.flMin) THEN ERR_RANGE_MIN
    ELSE IF RLt(cal.flMax, FLValue) THEN ERR_RANGE_MAX
    ELSE OK

\* the result with the focus step of OD2FocusStep's outcome f
WithFocusStep(f, zoomStep, FLValue, err) ==
    IF f.raised THEN Raise ELSE Ret(<<f.ret[1], zoomStep, FLValue, err>>)

\* FocusFor leaving the range status in place when the focus part is skipped
FocusForKeepingStatus(cal, FLValue, z, OD, BFL) ==
    IF z.raised THEN Raise
    ELSE IF IsStr(OD) THEN Ret(<<0, z.ret[1], FLValue, RangeStatus(cal, FLValue)>>)
    ELSE IF RLt(OD, R(0)) THEN Ret(<<0, z.ret[1], FLValue, RangeStatus(cal, FLValue)>>)
    ELSE WithFocusStep(OD2FocusStep(cal, OD, z.ret[1], BFL), z.ret[1], FLValue,
                       RangeStatus(cal, FLValue))

\* the focus part, z the outcome of FL2ZoomStep for FLValue
FocusFor(cal, FLValue, z, OD, BFL) ==
    IF z.raised THEN Raise
    ELSE IF IsStr(OD) THEN Ret(<<0, z.ret[1], FLValue, ERR_OD_VALUE>>)
    ELSE IF RLt(OD, R(0)) THEN Ret(<<0, z.ret[1], FLValue, ERR_OD_VALUE>>)
    ELSE WithFocusStep(OD2FocusStep(cal, OD, z.ret[1], BFL), z.ret[1], FLValue,
                       RangeStatus(cal, FLValue))

\* the zoom and focus parts for the interpolated focal length
StepsFor(cal, FLValue, OD, BFL) ==
    FocusFor(cal, FLValue, FL2ZoomStep(cal, FLValue), OD, BFL)

\* the loop, then the extrapolation, over the sorted focal lengths
FLValueIn(cal, AOV, IH, FLList) ==
    FLValueOf(AOV, Extrapolated(cal, IH, FLList,
                                Bracket(cal, AOV, IH, FLList, 1, <<>>, <<>>)))

AOV2MotorSteps(cal, AOV, IH, OD, BFL) ==
    IF ~Has(cal, "dist") THEN Ret(<<0, 0, R(0), ERR_NO_CAL>>)
    ELSE IF Len(cal.dist.cp1) < 2 THEN Raise
    ELSE StepsFor(cal, FLValueIn(cal, AOV, IH, SortAsc(cal.dist.cp1)), OD, BFL)

\* np.degrees(np.arctan(t)) to three decimals, for the ratios the arguments below
\* produce
ArcTanDeg(t) ==
    LET a == RAbs(t)
        v == CASE a = Q(1, 2) -> Q(26565, 1000)
               [] a = R(1) -> R(45)
               [] a = R(2) -> Q(63435, 1000)
    IN  IF t[1] < 0 THEN RNeg(v) ELSE v

FOV2AOV(FOV, OD) ==
    IF IsStr(FOV) \/ IsStr(OD) THEN R(0)
    ELSE IF IsZero(OD) \/ IsZero(FOV) THEN R(0)
    ELSE RMul(R(2), ArcTanDeg(RDiv(RDiv(FOV, R(2)), OD)))

FOV2MotorSteps(cal, FOV, IH, OD, BFL) ==
    IF ~Has(cal, "dist") THEN Ret(<<0, 0, R(0), ERR_NO_CAL>>)
    ELSE LET AOV == FOV2AOV(FOV, OD)
         IN  IF IsZero(AOV) THEN Ret(<<0, 0, R(0), ERR_CALC>>)
             ELSE AOV2MotorSteps(cal, AOV, IH, OD, BFL)

\* np.tan(np.radians(d)) to four decimals, for the half angles the calibrations
\* below produce
TanDeg(d) ==
    CASE d = R(0) -> R(0)
      [] d = R(8) -> Q(1405, 10000)
      [] d = R(12) -> Q(2126, 10000)
      [] d = R(16) -> Q(2867, 10000)
      [] d = R(17) -> Q(3057, 10000)
      [] d = R(20) -> Q(3640, 10000)
      [] d = R(23) -> Q(4245, 10000)
      [] d = R(24) -> Q(4452, 10000)

calcFOV(cal, sensorWd, FL, OD) ==
    IF ~Has(cal, "dist") THEN Ret(<<R(0), ERR_NO_CAL>>)
    ELSE LET AOV == calcAOV(cal, sensorWd, FL).ret[1]
             FOV == RMul(RMul(R(2), OD), TanDeg(RDiv(AOV, R(2))))
         IN  Ret(<<FOV, OK>>)

(***************************************************************************)
(* Depth of field                                                          *)
(***************************************************************************)
\* (FL / 1000) / OD divides Python floats: ZeroDivisionError for OD = 0.  The
\* divisions by shortDiameter * magnification and by 1 +- the ratio are numpy
\* divisions.
\* calcDOF testing the infinity sentinel before the calibration
calcDOFSentinelFirst(cal, coc, irisStep, FL, OD) ==
    IF RLe(R(INFINITY), OD) THEN Ret(<<R(INFINITY), OK, R(INFINITY), R(INFINITY)>>)
    ELSE IF ~Has(cal, "iris") THEN Ret(<<R(0), ERR_NO_CAL, R(0), R(0)>>)
    ELSE IF IsZero(OD) THEN Raise
    ELSE LET shortDiameter == interpolate(cal.iris.coef, cal.iris.cp1, FL, R(irisStep))
             magnification == RDiv(RDiv(FL, R(1000)), OD)
             ratio == RDiv(coc, RMul(shortDiameter, magnification))
             ODMin == RMin(RDiv(OD, RAdd(R(1), ratio)), R(INFINITY))
             ODMax0 == RMin(RDiv(OD, RSub(R(1), ratio)), R(INFINITY))
             ODMax == IF RLt(ODMax0, R(0)) THEN R(INFINITY) ELSE ODMax0
             DOF == IF ODMax = R(INFINITY) THEN R(INFINITY) ELSE RSub(ODMax, ODMin)
         IN  Ret(<<DOF, OK, ODMin, ODMax>>)

\* calcDOF leaving the near bound of an object at infinity at the object distance
calcDOFNearAtOD(cal, coc, irisStep, FL, OD) ==
    IF ~Has(cal, "iris") THEN Ret(<<R(0), ERR_NO_CAL, R(0), R(0)>>)
    ELSE IF RLe(R(INFINITY), OD) THEN Ret(<<R(INFINITY), OK, OD, R(INFINITY)>>)
    ELSE IF IsZero(OD) THEN Raise
    ELSE LET shortDiameter == interpolate(cal.iris.coef, cal.iris.cp1, FL, R(irisStep))
             magnification == RDiv(RDiv(FL, R(1000)), OD)
             ratio == RDiv(coc, RMul(shortDiameter, magnification))
             ODMin == RMin(RDiv(OD, RAdd(R(1), ratio)), R(INFINITY))
             ODMax0 == RMin(RDiv(OD, RSub(R(1), ratio)), R(INFINITY))
             ODMax == IF RLt(ODMax0, R(0)) THEN R(INFINITY) ELSE ODMax0
             DOF == IF ODMax = R(INFINITY) THEN R(INFINITY) ELSE RSub(ODMax, ODMin)
         IN  Ret(<<DOF, OK, ODMin, ODMax>>)

calcDOF(cal, coc, irisStep, FL, OD) ==
    IF ~Has(cal, "iris") THEN Ret(<<R(0), ERR_NO_CAL, R(0), R(0)>>)
    ELSE IF RLe(R(INFINITY), OD) THEN Ret(<<R(INFINITY), OK, R(INFINITY), R(INFINITY)>>)
    ELSE IF IsZero(OD) THEN Raise
    ELSE LET shortDiameter == interpolate(cal.iris.coef, cal.iris.cp1, FL, R(irisStep))
             magnification == RDiv(RDiv(FL, R(1000)), OD)
             ratio == RDiv(coc, RMul(shortDiameter, magnification))
             ODMin == RMin(RDiv(OD, RAdd(R(1), ratio)), R(INFINITY))
             ODMax0 == RMin(RDiv(OD, RSub(R(1), ratio)), R(INFINITY))
             ODMax == IF RLt(ODMax0, R(0)) THEN R(INFINITY) ELSE ODMax0
             DOF == IF ODMax = R(INFINITY) THEN R(INFINITY) ELSE RSub(ODMax, ODMin)
         IN  Ret(<<DOF, OK, ODMin, ODMax>>)

calcFullDOF(cal, coc, irisStep, FL, OD) ==
    IF ~Has(cal, "iris") THEN Ret(<<R(0), ERR_NO_CAL>>)
    ELSE LET shortDiameter == interpolate(cal.iris.coef, cal.iris.cp1, FL, R(irisStep))
             OD_mm == RMul(OD, R(1000))
             DOF == RDiv(RMul(RMul(R(2), RMul(OD_mm, OD_mm)), coc),
                         RMul(FL, shortDiameter))
         IN  Ret(<<RDiv(DOF, R(1000)), OK>>)

(***************************************************************************)
(* nppp.polyfit(xs, ys, deg) for deg 1 and 2: the least-squares polynomial. *)
(* With fewer distinct xs than coefficients the fit is rank deficient and   *)
(* lstsq returns, in polyfit's column-scaled unknowns, the solution of      *)
(* least norm among the polynomials through the mean of the ys at each x.   *)
(***************************************************************************)
RECURSIVE RPow(_, _)
RPow(x, p) == IF p = 0 THEN R(1) ELSE RMul(x, RPow(x, p - 1))

\* the sum of xs[i]^p * ys[i] over the indices i..Len(xs) with xs[i] in the set only
RECURSIVE SumXY(_, _, _, _, _)
SumXY(xs, ys, p, only, i) ==
    IF i > Len(xs) THEN R(0)
    ELSE RAdd(IF xs[i] \in only THEN RMul(RPow(xs[i], p), ys[i]) ELSE R(0),
              SumXY(xs, ys, p, only, i + 1))

Values(xs) == {xs[i] : i \in DOMAIN xs}

Ones(xs) == [i \in DOMAIN xs |-> R(1)]

\* the sum of xs[i]^p
SumX(xs, p) == SumXY(xs, Ones(xs), p, Values(xs), 1)

\* the mean of the ys at x = a
MeanAt(xs, ys, a) == RDiv(SumXY(xs, ys, 0, {a}, 1), SumXY(xs, Ones(xs), 0, {a}, 1))

\* the square of polyfit's scale of column j (1 for a column of zeros)
ColWeight(xs, j) == LET w == SumX(xs, 2 * j) IN IF IsZero(w) THEN R(1) ELSE w

Det2(a, b, c, d) == RSub(RMul(a, d), RMul(b, c))

Det3(m) ==
    RAdd(RSub(RMul(m[1][1], Det2(m[2][2], m[2][3], m[3][2], m[3][3])),
              RMul(m[1][2], Det2(m[2][1], m[2][3], m[3][1], m[3][3]))),
         RMul(m[1][3], Det2(m[2][1], m[2][2], m[3][1], m[3][2])))

\* full rank: the normal equations, by Cramer's rule
PolyFitFull(xs, ys, deg) ==
    LET S(p) == SumX(xs, p)
        T(p) == SumXY(xs, ys, p, Values(xs), 1)
    IN  IF deg = 1
            THEN LET det == Det2(S(0), S(1), S(1), S(2))
                 IN  <<RDiv(Det2(T(0), S(1), T(1), S(2)), det),
                       RDiv(Det2(S(0), T(0), S(1), T(1)), det)>>
        ELSE LET m == <<<<S(0), S(1), S(2)>>, <<S(1), S(2), S(3)>>, <<S(2), S(3), S(4)>>>>
                 t == <<T(0), T(1), T(2)>>
                 col(k) == [r \in 1..3 |-> [c \in 1..3 |-> IF c = k THEN t[r] ELSE m[r][c]]]
                 det == Det3(m)
             IN  <<RDiv(Det3(col(1)), det), RDiv(Det3(col(2)), det), RDiv(Det3(col(3)), det)>>

\* rank deficient.  One distinct x (a): the polynomials through (a, mean) are
\* c[j] = lambda * a^j / w[j], of least norm for the lambda that meets the mean.
\* Two distinct xs (a, b) and deg 2: the line through the two means plus t times
\* (x - a)(x - b), with the t of least norm.
PolyFitDeficient(xs, ys, deg) ==
    LET vals == Values(xs)
        a == CHOOSE v \in vals : \A u \in vals : RLe(v, u)
        w(j) == ColWeight(xs, j)
    IN  IF Cardinality(vals) = 1
            THEN LET g(j) == RDiv(RPow(a, 2 * j), w(j))
                     G == IF deg = 1 THEN RAdd(g(0), g(1)) ELSE RAdd(RAdd(g(0), g(1)), g(2))
                     lambda == RDiv(MeanAt(xs, ys, a), G)
                 IN  [j \in 1..(deg + 1) |-> RDiv(RMul(lambda, RPow(a, j - 1)), w(j - 1))]
        ELSE LET b == CHOOSE v \in vals : v # a
                 ma == MeanAt(xs, ys, a)
                 mb == MeanAt(xs, ys, b)
                 p1 == RDiv(RSub(mb, ma), RSub(b, a))
                 p0 == RSub(ma, RMul(p1, a))
                 n0 == RMul(a, b)
                 n1 == RNeg(RAdd(a, b))
                 t == RNeg(RDiv(RAdd(RMul(w(0), RMul(p0, n0)), RMul(w(1), RMul(p1, n1))),
                                RAdd(RAdd(RMul(w(0), RMul(n0, n0)), RMul(w(1), RMul(n1, n1))),
                                     w(2))))
             IN  <<RAdd(p0, RMul(t, n0)), RAdd(p1, RMul(t, n1)), t>>

PolyFit(xs, ys, deg) ==
    IF Cardinality(Values(xs)) >= deg + 1 THEN PolyFitFull(xs, ys, deg)
    ELSE PolyFitDeficient(xs, ys, deg)

(***************************************************************************)
(* Back focal length correction                                            *)
(***************************************************************************)
\* a sample [FL, focus shift, OD]; xy = np.transpose(values): xy[0] the focal
\* lengths, xy[1] the focus shifts
SampleFLs(values) == [i \in DOMAIN values |-> values[i][1]]

SampleShifts(values) == [i \in DOMAIN values |-> values[i][2]]

\* the degree of the fit for n >= 2 samples
\* FitDegree going quadratic from three samples on
FitDegreeFromThree(n) == IF n <= 2 THEN 1 ELSE 2

FitDegree(n) == IF n <= 3 THEN 1 ELSE 2

\* the new value of BFLCorrectionCoeffs.  With no sample left xy is an empty
\* array and xy[0] raises IndexError before anything is assigned.
fitBFLCorrection(values) ==
    IF Len(values) = 0 THEN Raise
    ELSE IF Len(values) = 1 THEN Ret(SampleShifts(values))
    ELSE Ret(PolyFit(SampleFLs(values), SampleShifts(values), FitDegree(Len(values))))

\* the outcomes of BFLCorrection(FL).  `coeffs == []` is True for the list the
\* object starts with.  Against the numpy array of a stored fit the comparison
\* and its truth value depend on the numpy release: the older ones answer False
\* with a warning, the newer ones raise ValueError.
BFLCorrection(coeffs, FL) ==
    IF coeffs = <<>> THEN {Ret(<<0>>)}
    ELSE {Ret(<<Trunc(PolyVal(FL, coeffs))>>), Raise}

(***************************************************************************)
(* Calibration data sets, in the shape loadData consumes.  Control points  *)
(* of one section are distinct; the tracking section has four control      *)
(* points (1000 / OD for infinity, 10 m, 4 m and 2 m).                     *)
(***************************************************************************)
LensA ==
    [zoomSteps |-> 8, focusSteps |-> 20, irisSteps |-> 4,
     flMin |-> Q(3, 2), flMax |-> R(6), fnum |-> R(2),
     FL |-> [coef |-> <<RSeq(<<-4, 2>>)>>, coefInv |-> << <<R(2), Q(1, 2)>> >>],
     tracking |-> [cp1 |-> RSeq(<<0, 100, 250, 500>>),
                   coef |-> << <<R(18), Q(1, 2)>>, <<R(15), Q(1, 2)>>,
                               <<R(10), Q(1, 2)>>, <<R(2), Q(1, 4)>> >>],
     AP |-> [cp1 |-> RSeq(<<2, 6>>),
             coef |-> << <<Q(3, 10), Q(-1, 20)>>, <<Q(1, 5), Q(-1, 25)>> >>],
     dist |-> [cp1 |-> RSeq(<<4, 2, 6>>),
               coef |-> <<RSeq(<<0, 6>>), RSeq(<<0, 10>>), RSeq(<<0, 4>>)>>],
     iris |-> [cp1 |-> RSeq(<<2, 6>>),
               coef |-> <<RSeq(<<4, -1>>), RSeq(<<6, -1>>)>>]]

\* a second lens: its own limits, odMin and odMax given, one iris control point
LensB ==
    [zoomSteps |-> 6, focusSteps |-> 12, irisSteps |-> 3,
     flMin |-> R(2), flMax |-> R(6), odMin |-> R(1), odMax |-> R(INFINITY),
     fnum |-> R(4),
     FL |-> [coef |-> << <<R(-3), Q(3, 2)>> >>, coefInv |-> << <<R(2), Q(2, 3)>> >>],
     tracking |-> [cp1 |-> RSeq(<<0, 100, 250, 500>>),
                   coef |-> <<RSeq(<<11, 0>>), RSeq(<<9, 0>>), RSeq(<<6, 0>>), RSeq(<<1, 0>>)>>],
     AP |-> [cp1 |-> RSeq(<<2, 6>>),
             coef |-> << <<Q(1, 5), Q(-1, 20)>>, <<Q(1, 10), R(0)>> >>],
     dist |-> [cp1 |-> RSeq(<<2, 6>>),
               coef |-> <<RSeq(<<0, 10>>), RSeq(<<0, 4>>)>>],
     iris |-> [cp1 |-> RSeq(<<4>>), coef |-> <<RSeq(<<5, -1>>)>>]]

\* the sections of a calibration named in keep, with the scalar limits
Sections(cal, keep) ==
    LET scalars == {"zoomSteps", "focusSteps", "irisSteps", "flMin", "flMax",
                    "odMin", "odMax", "fnum"}
    IN  [k \in DOMAIN cal \cap (scalars \cup keep) |-> cal[k]]

\* the empty dict: nothing loaded
EmptyCal == <<>>

\* LensA with the wide end of the aperture curves calibrated at 1.6 mm
LensC == [LensA EXCEPT !.AP.cp1 = <<Q(16, 10), R(6)>>]

\* a partially populated context: the dist and AP sections only
LensADistAP == Sections(LensA, {"dist", "AP"})

\* the FL section only, of a lens with a curved zoom cam from 2 mm to 4 mm: the
\* step fitted by the parabola 9/4 (FL - 2)^2 - 1/2, the focal length by a line
LensD ==
    [zoomSteps |-> 8, focusSteps |-> 20, irisSteps |-> 4,
     flMin |-> R(2), flMax |-> R(4), fnum |-> R(2),
     FL |-> [coef |-> << <<Q(17, 2), R(-9), Q(9, 4)>> >>, coefInv |-> << <<R(2), Q(1, 4)>> >>]]

\* a partially populated context: the tracking section only
LensATracking == Sections(LensA, {"tracking"})

Calibrations == {EmptyCal, LensA, LensB, LensC, LensADistAP, LensATracking, LensD}

(***************************************************************************)
(* Arguments of the calls                                                  *)
(***************************************************************************)
\* the largest motor step passed to a conversion, and the largest number of
\* BFL samples
MaxStep == 9

MaxSamples == 4

ZoomStepArgs == {0, 3, 8, MaxStep}

FocusStepArgs == {-500, 2, 11, 15, 200}

IrisStepArgs == {0, 2, 4, MaxStep}

BFLArgs == {0, 3}

FLArgs == {R(1), R(2), R(3), R(6), R(14)}

NAArgs == {Q(-1, 10), Q(1, 20), Q(3, 20), Q(1, 4), Q(1, 2)}

FNumArgs == {R(0), R(1), R(2), R(10)}

\* object distances in meters: the skip-focus sentinels, 0 and valid distances
ODArgs == {R(-1), R(0), R(1), R(2), R(INFINITY)}

AOVArgs == {R(10), R(20), R(30), R(40), R(42), R(50)}

FOVArgs == {R(0), R(2), R(4)}

SensorArgs == {R(0), R(4)}

COCArgs == {Q(4, 1000), Q(5, 1000), Q(20, 1000), Q(100, 1000), Q(150, 1000)}

(***************************************************************************)
(* State machine: one `calculations` object used by a single-threaded      *)
(* caller.  A call runs to its end in one step and leaves in res its name, *)
(* its arguments and its outcome; the caller takes the outcome (Return)    *)
(* before it makes the next call.  cocArg is the argument of the last      *)
(* loadCOC call (the default before any).                                  *)
(***************************************************************************)
\* no call outstanding
Idle == [op |-> "idle", args |-> <<>>, raised |-> FALSE, ret |-> <<>>]

\* a thread that mutates the BFL samples, outside a call; before is the sample
\* list as it was before its last mutation
WriterIdle == [pc |-> "idle", before |-> <<>>]

\* a thread that calls BFLCorrection, outside a call
ReaderIdle ==
    [pc |-> "idle", FL |-> R(0), evaluated |-> FALSE, coeffs |-> <<>>, lists |-> {},
     raised |-> FALSE, ret |-> <<>>]

Init ==
    /\ calData = EmptyCal
    /\ COC = COC_DEFAULT
    /\ cocArg = COC_DEFAULT
    /\ BFLCorrectionValues = <<>>
    /\ BFLCorrectionCoeffs = <<>>
    /\ res = Idle
    /\ writer = WriterIdle
    /\ reader = ReaderIdle

\* a call is made when none is outstanding (the guard of every call below)
CanCall == res = Idle

Called(op, args, out) ==
    res' = [op |-> op, args |-> args, raised |-> out.raised, ret |-> out.ret]

\* the caller takes the outcome of the call
Return ==
    /\ res # Idle
    /\ res' = Idle
    /\ UNCHANGED <<calData, COC, cocArg, BFLCorrectionValues, BFLCorrectionCoeffs,
                   writer, reader>>

\* a call that reads the object and changes nothing
Query(op, args, out) ==
    /\ CanCall
    /\ Called(op, args, out)
    /\ UNCHANGED <<calData, COC, cocArg, BFLCorrectionValues, BFLCorrectionCoeffs,
                   writer, reader>>

loadData(c) ==
    /\ CanCall
    /\ calData' = c
    /\ Called("loadData", <<>>, Ret(<<IF DOMAIN c = {} THEN ERR_NO_CAL ELSE OK>>))
    /\ UNCHANGED <<COC, cocArg, BFLCorrectionValues, BFLCorrectionCoeffs, writer, reader>>

\* loadCOC keeping the value only when it is inside the expected range
COCInRangeOnly(old, v) == IF RLt(v, Q(5, 1000)) \/ RLt(Q(100, 1000), v) THEN old ELSE v

\* self.COC = COC: the value the object holds after loadCOC(v)
COCLoaded(old, v) == v

loadCOC(v) ==
    /\ CanCall
    /\ COC' = COCLoaded(COC, v)
    /\ cocArg' = v
    /\ Called("loadCOC", <<v>>,
              Ret(<<IF RLt(v, Q(5, 1000)) \/ RLt(Q(100, 1000), v) THEN WARN_VALUE ELSE OK>>))
    /\ UNCHANGED <<calData, BFLCorrectionValues, BFLCorrectionCoeffs, writer, reader>>

CallZoomStep2FL ==
    \E z \in ZoomStepArgs : Query("zoomStep2FL", <<z>>, zoomStep2FL(calData, z))

CallFocusStep2OD ==
    \E f \in FocusStepArgs, z \in ZoomStepArgs, b \in BFLArgs :
        Query("focusStep2OD", <<f, z, b>>, focusStep2OD(calData, f, z, b))

CallIrisStep2NA ==
    \E i \in IrisStepArgs, fl \in FLArgs, limit \in BOOLEAN :
        Query("irisStep2NA", <<i, fl, limit>>, irisStep2NA(calData, i, fl, limit))

CallIrisStep2FNum ==
    \E i \in IrisStepArgs, fl \in FLArgs :
        Query("irisStep2FNum", <<i, fl>>, irisStep2FNum(calData, i, fl))

CallFL2ZoomStep ==
    \E fl \in FLArgs : Query("FL2ZoomStep", <<fl>>, FL2ZoomStep(calData, fl))

CallOD2FocusStep ==
    \E od \in ODArgs \ {R(-1)}, z \in ZoomStepArgs, b \in BFLArgs :
        Query("OD2FocusStep", <<od, z, b>>, OD2FocusStep(calData, od, z, b))

CallODFL2FocusStep ==
    \E od \in ODArgs \ {R(-1)}, fl \in FLArgs, b \in BFLArgs :
        Query("ODFL2FocusStep", <<od, fl, b>>, ODFL2FocusStep(calData, od, fl, b))

CallNA2IrisStep ==
    \E na \in NAArgs, fl \in FLArgs :
        Query("NA2IrisStep", <<na, fl>>, NA2IrisStep(calData, na, fl))

CallFNum2IrisStep ==
    \E fn \in FNumArgs, fl \in FLArgs :
        Query("fNum2IrisStep", <<fn, fl>>, fNum2IrisStep(calData, fn, fl))

CallAOV2MotorSteps ==
    \E aov \in AOVArgs, ih \in SensorArgs, od \in ODArgs \cup {StrOD}, b \in BFLArgs :
        Query("AOV2MotorSteps", <<aov, ih, od, b>>, AOV2MotorSteps(calData, aov, ih, od, b))

CallFOV2MotorSteps ==
    \E fov \in FOVArgs, ih \in SensorArgs, od \in (ODArgs \ {R(INFINITY)}) \cup {StrOD},
       b \in BFLArgs :
        Query("FOV2MotorSteps", <<fov, ih, od, b>>, FOV2MotorSteps(calData, fov, ih, od, b))

CallCalcAOV ==
    \E w \in SensorArgs, fl \in FLArgs : Query("calcAOV", <<w, fl>>, calcAOV(calData, w, fl))

CallCalcFOV ==
    \E w \in SensorArgs, fl \in FLArgs, od \in {R(1), R(2)} :
        Query("calcFOV", <<w, fl, od>>, calcFOV(calData, w, fl, od))

CallCalcDOF ==
    \E i \in IrisStepArgs, fl \in FLArgs, od \in (ODArgs \ {R(-1)}) \cup {R(2 * INFINITY)} :
        Query("calcDOF", <<i, fl, od>>, calcDOF(calData, COC, i, fl, od))

CallCalcFullDOF ==
    \E i \in IrisStepArgs, fl \in FLArgs, od \in {R(1), R(2)} :
        Query("calcFullDOF", <<i, fl, od>>, calcFullDOF(calData, COC, i, fl, od))

\* interpolate called on curve sets of one and of two control points
CurveArgs ==
    {[coef |-> <<RSeq(<<1, 2>>)>>, cp1 |-> RSeq(<<5>>)],
     [coef |-> <<RSeq(<<0, 1, 1>>)>>, cp1 |-> RSeq(<<3>>)],
     [coef |-> <<RSeq(<<1, 2>>), RSeq(<<3, 1>>)>>, cp1 |-> RSeq(<<5, 3>>)]}

CallInterpolate ==
    \E c \in CurveArgs, target \in FLArgs, x \in ZoomStepArgs :
        Query("interpolate", <<c, target, R(x)>>,
              Ret(<<interpolate(c.coef, c.cp1, target, R(x))>>))

NextConv ==
    \/ \E c \in Calibrations : loadData(c)
    \/ \E v \in COCArgs : loadCOC(v)
    \/ CallZoomStep2FL
    \/ CallFocusStep2OD
    \/ CallIrisStep2NA
    \/ CallIrisStep2FNum
    \/ CallFL2ZoomStep
    \/ CallOD2FocusStep
    \/ CallODFL2FocusStep
    \/ CallNA2IrisStep
    \/ CallFNum2IrisStep
    \/ CallAOV2MotorSteps
    \/ CallFOV2MotorSteps
    \/ CallCalcAOV
    \/ CallCalcFOV
    \/ CallCalcDOF
    \/ CallCalcFullDOF
    \/ CallInterpolate
    \/ Return

SpecConv == Init /\ [][NextConv]_vars

(***************************************************************************)
(* The BFL correction calls                                                *)
(***************************************************************************)
BFLFocusStepArgs == {12}

BFLFLArgs == {R(2), R(3), R(4)}

\* the design focus step is computed first; an exception there leaves the
\* object as it was.  The refit of a non-empty list never raises.
addBFLCorrection(focusStep, FL, OD) ==
    LET design == ODFL2FocusStep(calData, OD, FL, 0)
        values == Append(BFLCorrectionValues, <<FL, R(focusStep - design.ret[1]), OD>>)
    IN  /\ CanCall
        /\ Len(BFLCorrectionValues) < MaxSamples
        /\ IF design.raised
               THEN /\ Called("addBFLCorrection", <<focusStep, FL, OD>>, Raise)
                    /\ UNCHANGED <<BFLCorrectionValues, BFLCorrectionCoeffs>>
           ELSE /\ BFLCorrectionValues' = values
                /\ BFLCorrectionCoeffs' = fitBFLCorrection(values).ret
                /\ Called("addBFLCorrection", <<focusStep, FL, OD>>, Ret(values))
        /\ UNCHANGED <<calData, COC, cocArg, writer, reader>>

\* idx counts from 0.  The item is deleted before the refit, so an exception in
\* the refit leaves the shortened list with the coefficients of the old one.
removeBFLCorrectionByIndex(idx) ==
    LET values == RemoveAt(BFLCorrectionValues, idx + 1)
        fit == fitBFLCorrection(values)
    IN  /\ CanCall
        /\ IF idx < 0 \/ idx >= Len(BFLCorrectionValues)
               THEN /\ Called("removeBFLCorrectionByIndex", <<idx>>, Ret(BFLCorrectionValues))
                    /\ UNCHANGED <<BFLCorrectionValues, BFLCorrectionCoeffs>>
           ELSE /\ BFLCorrectionValues' = values
                /\ BFLCorrectionCoeffs' = IF fit.raised THEN BFLCorrectionCoeffs ELSE fit.ret
                /\ Called("removeBFLCorrectionByIndex", <<idx>>,
                          IF fit.raised THEN Raise ELSE Ret(values))
        /\ UNCHANGED <<calData, COC, cocArg, writer, reader>>

CallBFLCorrection ==
    \E fl \in BFLFLArgs :
        \E out \in BFLCorrection(BFLCorrectionCoeffs, fl) : Query("BFLCorrection", <<fl>>, out)

NextBFL ==
    \/ loadData(LensA)
    \/ \E f \in BFLFocusStepArgs, fl \in BFLFLArgs : addBFLCorrection(f, fl, R(INFINITY))
    \/ \E idx \in -1..MaxSamples : removeBFLCorrectionByIndex(idx)
    \/ CallBFLCorrection
    \/ Return

SpecBFL == Init /\ [][NextBFL]_vars

(***************************************************************************)
(* Two threads on one object: a writer that calls addBFLCorrection and      *)
(* removeBFLCorrectionByIndex, a reader that calls BFLCorrection.  A step   *)
(* is one read or one assignment of an attribute of the object, which the   *)
(* interpreter does not interleave with another; the writer's calls are     *)
(* serialized (one writer).  The main thread loads the calibration.         *)
(***************************************************************************)
\* the largest number of samples the writer collects
MaxThreadSamples == 2


\* addBFLCorrection up to the append: the design focus step, then the new sample
\* in the list
ThreadAppend(focusStep, FL, OD) ==
    LET design == ODFL2FocusStep(calData, OD, FL, 0)
    IN  /\ writer.pc = "idle"
        /\ Len(BFLCorrectionValues) < MaxThreadSamples
        /\ ~design.raised
        /\ BFLCorrectionValues' =
               Append(BFLCorrectionValues, <<FL, R(focusStep - design.ret[1]), OD>>)
        /\ writer' = [pc |-> "refit", before |-> BFLCorrectionValues]
        /\ UNCHANGED <<calData, COC, cocArg, BFLCorrectionCoeffs, res, reader>>

\* removeBFLCorrectionByIndex with idx in bounds up to the `del`
ThreadDelete(idx) ==
    /\ writer.pc = "idle"
    /\ idx >= 0 /\ idx < Len(BFLCorrectionValues)
    /\ BFLCorrectionValues' = RemoveAt(BFLCorrectionValues, idx + 1)
    /\ writer' = [pc |-> "refit", before |-> BFLCorrectionValues]
    /\ UNCHANGED <<calData, COC, cocArg, BFLCorrectionCoeffs, res, reader>>

\* fitBFLCorrection: the fit of the list, assigned to the attribute in one store;
\* on the empty list it raises before the store
ThreadAssignFit ==
    LET fit == fitBFLCorrection(BFLCorrectionValues)
    IN  /\ writer.pc = "refit"
        /\ BFLCorrectionCoeffs' = IF fit.raised THEN BFLCorrectionCoeffs ELSE fit.ret
        /\ writer' = [writer EXCEPT !.pc = "idle"]
        /\ UNCHANGED <<calData, COC, cocArg, BFLCorrectionValues, res, reader>>

\* BFLCorrection, `if self.BFLCorrectionCoeffs == []`: the first read of the
\* attribute.  The empty list returns 0; a stored fit goes on to the evaluation
\* or, on the numpy releases where the comparison cannot be a condition, raises.
ThreadTest(FL) ==
    /\ reader.pc = "idle"
    /\ \E out \in BFLCorrection(BFLCorrectionCoeffs, FL) :
           reader' = IF BFLCorrectionCoeffs = <<>> \/ out.raised
                         THEN [ReaderIdle EXCEPT !.pc = "returned", !.FL = FL,
                                                 !.raised = out.raised, !.ret = out.ret]
                     ELSE [ReaderIdle EXCEPT !.pc = "tested", !.FL = FL]
    /\ UNCHANGED <<calData, COC, cocArg, BFLCorrectionValues, BFLCorrectionCoeffs, res,
                   writer>>

\* the sample lists of the moment: the current one and, while a mutation waits
\* for its refit, the one before it
ListsNow ==
    {BFLCorrectionValues} \cup (IF writer.pc = "refit" THEN {writer.before} ELSE {})

\* nppp.polyval(FL, self.BFLCorrectionCoeffs): the second read of the attribute,
\* and the value returned
ThreadEvaluate ==
    /\ reader.pc = "tested"
    /\ reader' = [reader EXCEPT
                      !.pc = "returned", !.evaluated = TRUE,
                      !.coeffs = BFLCorrectionCoeffs, !.lists = ListsNow,
                      !.ret = <<Trunc(PolyVal(reader.FL, BFLCorrectionCoeffs))>>]
    /\ UNCHANGED <<calData, COC, cocArg, BFLCorrectionValues, BFLCorrectionCoeffs, res,
                   writer>>

\* the reader takes the value
ThreadReturn ==
    /\ reader.pc = "returned"
    /\ reader' = ReaderIdle
    /\ UNCHANGED <<calData, COC, cocArg, BFLCorrectionValues, BFLCorrectionCoeffs, res,
                   writer>>

NextThreads ==
    \/ loadData(LensA)
    \/ Return
    \/ \E f \in BFLFocusStepArgs, fl \in BFLFLArgs : ThreadAppend(f, fl, R(INFINITY))
    \/ \E idx \in 0..(MaxThreadSamples - 1) : ThreadDelete(idx)
    \/ ThreadAssignFit
    \/ ThreadTest(R(3))
    \/ ThreadEvaluate
    \/ ThreadReturn

SpecThreads == Init /\ [][NextThreads]_vars

\* every call on one object
Next == NextConv \/ NextBFL \/ NextThreads

Spec == Init /\ [][Next]_vars

(***************************************************************************)
(* Claims                                                                  *)
(***************************************************************************)
Loaded(section) == Has(calData, section)

NoCalLoaded == DOMAIN calData = {}

\* C1: with an empty calibration context every conversion returns ERR_NO_CAL
\* with every numeric output 0, whatever its arguments, and does not raise.
C1_EmptyContextNoCal ==
    NoCalLoaded =>
        /\ res.op \in {"zoomStep2FL", "focusStep2OD", "irisStep2NA", "irisStep2FNum", "calcDOF"}
               => ~res.raised /\ res.ret = <<R(0), ERR_NO_CAL, R(0), R(0)>>
        /\ res.op \in {"FL2ZoomStep", "OD2FocusStep", "ODFL2FocusStep", "NA2IrisStep",
                       "fNum2IrisStep"}
               => ~res.raised /\ res.ret = <<0, ERR_NO_CAL>>
        /\ res.op \in {"calcAOV", "calcFOV", "calcFullDOF"}
               => ~res.raised /\ res.ret = <<R(0), ERR_NO_CAL>>
        /\ res.op \in {"AOV2MotorSteps", "FOV2MotorSteps"}
               => ~res.raised /\ res.ret = <<0, 0, R(0), ERR_NO_CAL>>

\* C1 witness: calcDOF called at infinity on an empty context answers ERR_NO_CAL
C1_Witness ==
    /\ NoCalLoaded
    /\ res.op = "calcDOF"
    /\ res.args[3] = R(INFINITY)
    /\ res.ret[2] = ERR_NO_CAL

\* the fit a sample list calls for: none for the empty list
FitOf(values) == IF values = <<>> THEN <<>> ELSE fitBFLCorrection(values).ret

\* C2: after any addSample / removeByIndex the coefficients are the fit of the
\* current sample list, and with an empty sample list correction(FL) is 0 for
\* every FL.
C2_FitOfCurrentSamples ==
    /\ BFLCorrectionCoeffs = FitOf(BFLCorrectionValues)
    /\ BFLCorrectionValues = <<>> =>
           \A fl \in BFLFLArgs : BFLCorrection(BFLCorrectionCoeffs, fl) = {Ret(<<0>>)}

\* C3: the degree of the fit follows the sample count: one sample gives a
\* constant correction, two or three an affine one, four or more a quadratic,
\* and never more than three coefficients.
C3_DegreeBySampleCount ==
    LET n == Len(BFLCorrectionValues)
        c == BFLCorrectionCoeffs
    IN  /\ n = 1 => /\ Len(c) = 1
                    /\ \A f1, f2 \in BFLFLArgs : BFLCorrection(c, f1) = BFLCorrection(c, f2)
                    /\ res.op = "BFLCorrection" /\ ~res.raised => res.ret = <<Trunc(c[1])>>
        /\ n \in {2, 3} =>
               /\ Len(c) = 2
               /\ RSub(PolyVal(R(4), c), PolyVal(R(3), c)) = RSub(PolyVal(R(3), c), PolyVal(R(2), c))
        /\ n >= 4 => Len(c) = 3
        /\ Len(c) <= 3

\* C3 witness: three samples left by a removal from four, with a sloped fit
C3_Witness ==
    /\ res.op = "removeBFLCorrectionByIndex"
    /\ res.args[1] \in 0..2
    /\ Len(BFLCorrectionValues) = 3
    /\ Len(BFLCorrectionCoeffs) = 2
    /\ ~IsZero(BFLCorrectionCoeffs[2])

\* C4: interpolate with exactly one control point returns that control point's
\* polynomial evaluated at x, whatever the target.
C4_OnePointEvaluatesAtX ==
    (res.op = "interpolate" /\ Len(res.args[1].cp1) = 1)
        => res.ret[1] = PolyVal(res.args[3], res.args[1].coef[1])

\* C5 as stated: irisStep2NA with rangeLimit=True returns NAMin <= NA <= NAMax
\* for every iris step, focal length and loaded AP calibration.
C5_ClampedWithinBounds ==
    (res.op = "irisStep2NA" /\ Loaded("AP") /\ res.args[3])
        => RLe(res.ret[3], res.ret[1]) /\ RLe(res.ret[1], res.ret[4])

\* C5 amended: with rangeLimit=True the value lies in [NAMin, NAMax] whenever
\* NAMin <= NAMax, and is one of the two bounds otherwise; with rangeLimit=False
\* the value is the raw interpolated one.
C5_ClampedWhenBoundsOrdered ==
    (res.op = "irisStep2NA" /\ Loaded("AP")) =>
        LET NA == res.ret[1]
            NAMin == res.ret[3]
            NAMax == res.ret[4]
        IN  /\ NAMax = RMin(interpolate(calData.AP.coef, calData.AP.cp1, res.args[2], R(0)),
                            RDiv(R(1), RMul(R(2), calData.fnum)))
            /\ NAMin = RMax(interpolate(calData.AP.coef, calData.AP.cp1, res.args[2],
                                        R(calData.irisSteps)), Q(1, 100))
            /\ (res.args[3] /\ RLe(NAMin, NAMax)) => RLe(NAMin, NA) /\ RLe(NA, NAMax)
            /\ (res.args[3] /\ RLt(NAMax, NAMin)) => NA \in {NAMin, NAMax}
            /\ ~res.args[3] =>
                   NA = interpolate(calData.AP.coef, calData.AP.cp1, res.args[2], R(res.args[1]))

\* C5 witness: a raw value outside ordered bounds, clamped to a bound
C5_Witness ==
    /\ res.op = "irisStep2NA"
    /\ Loaded("AP")
    /\ res.args[3]
    /\ res.ret[2] = ERR_NA_MIN
    /\ RLt(res.ret[3], res.ret[4])
    /\ res.ret[1] = res.ret[3]
    /\ RLt(interpolate(calData.AP.coef, calData.AP.cp1, res.args[2], R(res.args[1])), res.ret[3])

OutOfCOCRange(v) == RLt(v, Q(5, 1000)) \/ RLt(Q(100, 1000), v)

\* C6: loadCOC answers WARN_VALUE exactly for a value below 0.005 or above 0.100
\* and OK otherwise, stores the value either way, and every later calcDOF and
\* calcFullDOF uses the value last loaded.
C6_COCStoredAndUsed ==
    /\ res.op = "loadCOC" =>
           /\ res.ret[1] = (IF OutOfCOCRange(res.args[1]) THEN WARN_VALUE ELSE OK)
           /\ COC = res.args[1]
    /\ res.op = "calcDOF" =>
           res.ret = calcDOF(calData, cocArg, res.args[1], res.args[2], res.args[3]).ret
    /\ res.op = "calcFullDOF" =>
           res.ret = calcFullDOF(calData, cocArg, res.args[1], res.args[2], res.args[3]).ret

\* C6 witness: after loadCOC(0.15) a depth of field that differs from the one
\* the default 0.020 gives
C6_Witness ==
    /\ res.op = "calcDOF"
    /\ Loaded("iris")
    /\ cocArg = Q(150, 1000)
    /\ ~res.raised
    /\ res.ret # calcDOF(calData, COC_DEFAULT, res.args[1], res.args[2], res.args[3]).ret

\* the target NA exceeds the zero-step NA of the AP curve at both of the two
\* control points nearest the focal length
AboveBothZeroStepNA(NA, FL) ==
    LET near == Nearest2(calData.AP.cp1, FL)
    IN  /\ RLt(PolyVal(R(0), calData.AP.coef[near[1]]), NA)
        /\ RLt(PolyVal(R(0), calData.AP.coef[near[2]]), NA)

\* C7: NA2IrisStep for a target NA above the zero-step NA at both nearest
\* control points returns iris step 0 with ERR_NA_MAX.
C7_AboveMaxGivesStepZero ==
    (res.op = "NA2IrisStep" /\ Loaded("AP") /\ Len(calData.AP.cp1) >= 2
         /\ AboveBothZeroStepNA(res.args[1], res.args[2]))
        => ~res.raised /\ res.ret = <<0, ERR_NA_MAX>>

\* the maximum angle of view at the i-th shortest calibrated focal length
AOVMaxAt(IH, i) == calcAOV(calData, IH, SortAsc(calData.dist.cp1)[i]).ret[1]

\* the target is wider than the maximum angle of view of every control point
WiderThanAll(AOV, IH) ==
    \A i \in DOMAIN calData.dist.cp1 : RLt(AOVMaxAt(IH, i), AOV)

\* the focal length extrapolated from the two shortest (widest-angle) control points
WideExtrapolation(AOV, IH) ==
    LET s == SortAsc(calData.dist.cp1)
    IN  RAdd(s[1], RMul(RDiv(RSub(AOV, AOVMaxAt(IH, 1)),
                             RSub(AOVMaxAt(IH, 2), AOVMaxAt(IH, 1))),
                        RSub(s[2], s[1])))

\* a call with such a target that returned
WideCall ==
    /\ res.op = "AOV2MotorSteps"
    /\ ~res.raised
    /\ Loaded("dist")
    /\ Len(calData.dist.cp1) >= 2
    /\ WiderThanAll(res.args[1], res.args[2])

\* the skip-focus sentinel: an OD that is a string or a negative number
SkipFocus(OD) == IF IsStr(OD) THEN TRUE ELSE RLt(OD, R(0))

C9_InfinityDOF ==
    (res.op = "calcDOF" /\ Loaded("iris") /\ RLe(R(INFINITY), res.args[3]))
        => ~res.raised /\ res.ret = <<R(INFINITY), OK, R(INFINITY), R(INFINITY)>>

\* C9 witness: such a call with OD above the sentinel
C9_Witness ==
    /\ res.op = "calcDOF"
    /\ Loaded("iris")
    /\ RLt(R(INFINITY), res.args[3])
    /\ res.ret = <<R(INFINITY), OK, R(INFINITY), R(INFINITY)>>

\* C10: FL2ZoomStep returns a zoom step in [0, zoomSteps]; ERR_RANGE_MIN exactly
\* when the truncated polynomial value is below 0 (step 0), ERR_RANGE_MAX exactly
\* when it is above zoomSteps (step zoomSteps), OK exactly when it is neither
\* (step unchanged); without the FL section it returns step 0 with ERR_NO_CAL.
C10_ZoomStepClamped ==
    res.op = "FL2ZoomStep" =>
        IF Loaded("FL")
            THEN LET raw == Trunc(PolyVal(res.args[1], calData.FL.coef[1]))
                     zoomStep == res.ret[1]
                     err == res.ret[2]
                 IN  /\ ~res.raised
                     /\ zoomStep \in 0..calData.zoomSteps
                     /\ err = ERR_RANGE_MIN <=> raw < 0
                     /\ err = ERR_RANGE_MAX <=> raw > calData.zoomSteps
                     /\ err = OK <=> raw \in 0..calData.zoomSteps
                     /\ raw < 0 => zoomStep = 0
                     /\ raw > calData.zoomSteps => zoomStep = calData.zoomSteps
                     /\ raw \in 0..calData.zoomSteps => zoomStep = raw
        ELSE res.ret = <<0, ERR_NO_CAL>>

\* C10 witness: a focal length whose zoom step is clamped to zoomSteps
C10_Witness ==
    /\ res.op = "FL2ZoomStep"
    /\ Loaded("FL")
    /\ Trunc(PolyVal(res.args[1], calData.FL.coef[1])) > calData.zoomSteps
    /\ res.ret = <<calData.zoomSteps, ERR_RANGE_MAX>>

\* a step that is a call of removeBFLCorrectionByIndex
RemoveStep == res = Idle /\ res'.op = "removeBFLCorrectionByIndex"

\* C11: removeByIndex(i) with i < 0 or i >= the number of samples leaves the
\* sample list and the coefficients as they were and returns the unchanged list;
\* with i in bounds exactly the sample at position i is removed and the others
\* keep their relative order.
C11_RemoveByIndexFrame ==
    [][RemoveStep =>
          LET idx == res'.args[1]
              n == Len(BFLCorrectionValues)
          IN  IF idx < 0 \/ idx >= n
                  THEN /\ BFLCorrectionValues' = BFLCorrectionValues
                       /\ BFLCorrectionCoeffs' = BFLCorrectionCoeffs
                       /\ ~res'.raised
                       /\ res'.ret = BFLCorrectionValues
              ELSE /\ Len(BFLCorrectionValues') = n - 1
                   /\ \A j \in 1..idx : BFLCorrectionValues'[j] = BFLCorrectionValues[j]
                   /\ \A j \in (idx + 1)..(n - 1) :
                          BFLCorrectionValues'[j] = BFLCorrectionValues[j + 1]]_vars

\* C11 witness: the middle one of three samples removed, two different samples
\* left
C11_Witness ==
    /\ res.op = "removeBFLCorrectionByIndex"
    /\ res.args[1] = 1
    /\ ~res.raised
    /\ Len(BFLCorrectionValues) = 2
    /\ BFLCorrectionValues[1] # BFLCorrectionValues[2]

\* a call of AOV2MotorSteps or FOV2MotorSteps that returned
MotorStepsCall == res.op \in {"AOV2MotorSteps", "FOV2MotorSteps"} /\ ~res.raised

\* C12: the motor steps AOV2MotorSteps and FOV2MotorSteps return are within the
\* motor limits on every loaded calibration, whatever the status: the focus
\* step in [0, focusSteps] and the zoom step in [0, zoomSteps].
C12_MotorStepsWithinLimits ==
    (MotorStepsCall /\ ~NoCalLoaded) =>
        /\ res.ret[1] \in 0..calData.focusSteps
        /\ res.ret[2] \in 0..calData.zoomSteps

\* C12 witness: a focal length beyond the zoom range and a focus position beyond
\* the focus range, both steps limited to the last motor step
C12_Witness ==
    /\ res.op = "AOV2MotorSteps"
    /\ ~res.raised
    /\ Loaded("FL") /\ Loaded("tracking")
    /\ res.ret[4] = ERR_RANGE_MAX
    /\ Trunc(PolyVal(res.ret[3], calData.FL.coef[1])) > calData.zoomSteps
    /\ res.ret[2] = calData.zoomSteps
    /\ OD2FocusStepUnclamped(calData, res.args[3], res.ret[2], res.args[4]).ret[1]
           > calData.focusSteps
    /\ res.ret[1] = calData.focusSteps

\* a zoomStep2FL call for a motor step of the lens whose focal length is within
\* [flMin, flMax]
ValidZoomCall ==
    /\ res.op = "zoomStep2FL"
    /\ Loaded("FL")
    /\ res.args[1] \in 0..calData.zoomSteps
    /\ res.ret[2] = OK

\* the zoom step polynomial at the focal length the call returned
BackStep == PolyVal(res.ret[1], calData.FL.coef[1])

\* FL2ZoomStep of the focal length the call returned
RoundTrip == FL2ZoomStep(calData, res.ret[1])

\* C13 as stated: for every zoom step s in [0, zoomSteps] whose focal length is
\* within [flMin, flMax], FL2ZoomStep(zoomStep2FL(s)) is at most one step away
\* from s, with status OK.
C13_ZoomRoundTrip ==
    ValidZoomCall =>
        /\ ~RoundTrip.raised
        /\ Abs(RoundTrip.ret[1] - res.args[1]) <= 1
        /\ RoundTrip.ret[2] = OK

\* C13 amended: FL2ZoomStep(zoomStep2FL(s)) is int(coef(coefInv(s))) limited to
\* [0, zoomSteps]; it is at most one step away from s, with status OK, where the
\* two polynomials of the calibration invert each other to less than one step.
C13_ZoomRoundTripOfInverseFits ==
    ValidZoomCall =>
        /\ ~RoundTrip.raised
        /\ LET raw == Trunc(BackStep)
           IN  RoundTrip.ret[1] = (IF raw < 0 THEN 0
                                   ELSE IF raw > calData.zoomSteps THEN calData.zoomSteps
                                   ELSE raw)
        /\ RLt(RAbs(RSub(BackStep, R(res.args[1]))), R(1)) =>
               /\ Abs(RoundTrip.ret[1] - res.args[1]) <= 1
               /\ RoundTrip.ret[2] = OK

\* C13 witness: step 0 of a lens whose fits differ by half a step there; the way
\* back gives -1/2, which int() takes to step 0
C13_Witness ==
    /\ ValidZoomCall
    /\ res.args[1] = 0
    /\ BackStep = Q(-1, 2)
    /\ RoundTrip = Ret(<<0, OK>>)

\* the one section each of these conversions reads
SectionOf(op) ==
    CASE op \in {"zoomStep2FL", "FL2ZoomStep"} -> "FL"
      [] op \in {"focusStep2OD", "OD2FocusStep"} -> "tracking"
      [] op \in {"irisStep2NA", "irisStep2FNum", "NA2IrisStep", "fNum2IrisStep"} -> "AP"
      [] op \in {"calcAOV", "calcFOV"} -> "dist"
      [] op \in {"calcDOF", "calcFullDOF"} -> "iris"

\* the ERR_NO_CAL result of each conversion: zero for every numeric output
NoCalResult(op) ==
    CASE op \in {"zoomStep2FL", "focusStep2OD", "irisStep2NA", "irisStep2FNum", "calcDOF"}
             -> <<R(0), ERR_NO_CAL, R(0), R(0)>>
      [] op \in {"FL2ZoomStep", "OD2FocusStep", "ODFL2FocusStep", "NA2IrisStep",
                  "fNum2IrisStep"} -> <<0, ERR_NO_CAL>>
      [] op \in {"calcAOV", "calcFOV", "calcFullDOF"} -> <<R(0), ERR_NO_CAL>>
      [] op \in {"AOV2MotorSteps", "FOV2MotorSteps"} -> <<0, 0, R(0), ERR_NO_CAL>>

\* the conversions that read one section, on a context that lacks it
OneSectionAbsent ==
    (/\ res.op \in {"zoomStep2FL", "FL2ZoomStep", "focusStep2OD", "OD2FocusStep",
                     "irisStep2NA", "irisStep2FNum", "NA2IrisStep", "fNum2IrisStep",
                     "calcAOV", "calcFOV", "calcDOF", "calcFullDOF"}
     /\ ~Loaded(SectionOf(res.op)))
        => ~res.raised /\ res.ret = NoCalResult(res.op)

\* a motor steps call that goes on to the zoom and focus parts: the dist section
\* is there and the angle of view is not 0
ReadsZoomAndFocus ==
    /\ res.op \in {"AOV2MotorSteps", "FOV2MotorSteps"}
    /\ Loaded("dist")
    /\ Len(calData.dist.cp1) >= 2
    /\ res.op = "FOV2MotorSteps" => ~IsZero(FOV2AOV(res.args[1], res.args[3]))

\* C14: on a partially populated calibration context a conversion that needs an
\* absent section returns ERR_NO_CAL with zero outputs and does not raise; so do
\* ODFL2FocusStep without the FL or the tracking section, and AOV2MotorSteps
\* and FOV2MotorSteps with the dist section but without the FL section, or
\* without the tracking section when the focus step is asked for.
C14_AbsentSectionNoCal ==
    ~NoCalLoaded =>
        /\ OneSectionAbsent
        /\ (res.op = "ODFL2FocusStep" /\ (~Loaded("FL") \/ ~Loaded("tracking")))
               => ~res.raised /\ res.ret = NoCalResult(res.op)
        /\ (res.op \in {"AOV2MotorSteps", "FOV2MotorSteps"} /\ ~Loaded("dist"))
               => ~res.raised /\ res.ret = NoCalResult(res.op)
        /\ (ReadsZoomAndFocus
                /\ (~Loaded("FL") \/ (~Loaded("tracking") /\ ~SkipFocus(res.args[3]))))
               => ~res.raised /\ res.ret[4] = ERR_NO_CAL

\* an object distance within the documented input range, 0 to infinity
InODRange(OD) == IF IsStr(OD) THEN FALSE ELSE RLe(R(0), OD) /\ RLe(OD, R(INFINITY))

\* what OD2FocusStep(OD, zoomStep, BFL) is to return for a focus position raw:
\* the step limited to [0, focusSteps], a range status exactly when it was limited
LimitedFocusStep(raw) ==
    IF raw < 0 THEN <<0, ERR_RANGE_MIN>>
    ELSE IF raw > calData.focusSteps THEN <<calData.focusSteps, ERR_RANGE_MAX>>
    ELSE <<raw, OK>>

\* the focus position for OD # 0 before it is limited: the tracking curves at
\* 1000 / OD, truncated, plus the BFL offset
RawFocusStep(OD, zoomStep, BFL) ==
    Trunc(interpolate(calData.tracking.coef, calData.tracking.cp1,
                      RDiv(R(1000), OD), R(zoomStep))) + BFL

\* C15: for every object distance from 0 to 1000000, OD = 0 included,
\* OD2FocusStep returns and does not raise, and so do ODFL2FocusStep and
\* AOV2MotorSteps through it; the focus step is in [0, focusSteps] and the status
\* is ERR_RANGE_MIN or ERR_RANGE_MAX exactly when the step, BFL offset added, was
\* limited, and OK otherwise.
C15_EveryODReturns ==
    /\ (res.op = "OD2FocusStep" /\ Loaded("tracking") /\ InODRange(res.args[1])) =>
           /\ ~res.raised
           /\ res.ret[1] \in 0..calData.focusSteps
           /\ res.ret[2] \in {OK, ERR_RANGE_MIN, ERR_RANGE_MAX}
           /\ ~IsZero(res.args[1]) =>
                  res.ret = LimitedFocusStep(RawFocusStep(res.args[1], res.args[2],
                                                          res.args[3]))
    /\ (res.op = "ODFL2FocusStep" /\ Loaded("tracking") /\ Loaded("FL")
            /\ InODRange(res.args[1])) =>
           /\ ~res.raised
           /\ res.ret[1] \in 0..calData.focusSteps
           /\ res.ret[2] \in {OK, ERR_RANGE_MIN, ERR_RANGE_MAX}
    /\ (res.op = "AOV2MotorSteps" /\ Loaded("dist") /\ Loaded("tracking") /\ Loaded("FL")
            /\ ~IsZero(res.args[2]) /\ InODRange(res.args[3])) =>
           /\ ~res.raised
           /\ res.ret[1] \in 0..calData.focusSteps

\* an AOV2MotorSteps call with the skip-focus sentinel that got past the
\* section test and the two-point extrapolation
SkipFocusCall ==
    /\ res.op = "AOV2MotorSteps"
    /\ Loaded("dist")
    /\ Len(calData.dist.cp1) >= 2
    /\ SkipFocus(res.args[3])

\* the same call with the object distance OD
SameWithOD(OD) == AOV2MotorSteps(calData, res.args[1], res.args[2], OD, res.args[4])

\* object distances for which the focus step is computed without an exception
ValidODs == {R(1), R(2), R(INFINITY)}

\* C16: AOV2MotorSteps with a negative or a string OD computes no focus step:
\* it returns focus step 0 and ERR_OD_VALUE, in place of any range status, with
\* the zoom step and the focal length it returns for the same AOV and sensor
\* size with a valid OD.
C16_SkipFocusSentinel ==
    SkipFocusCall =>
        \A OD \in ValidODs :
            /\ res.raised <=> SameWithOD(OD).raised
            /\ ~res.raised =>
                   /\ res.ret[1] = 0
                   /\ res.ret[2] = SameWithOD(OD).ret[2]
                   /\ res.ret[3] = SameWithOD(OD).ret[3]
                   /\ res.ret[4] = ERR_OD_VALUE

\* C16 witness: a string OD, a focal length below flMin for which a valid OD
\* gives a focus step other than 0 and ERR_RANGE_MIN
C16_Witness ==
    /\ SkipFocusCall
    /\ IsStr(res.args[3])
    /\ ~res.raised
    /\ Loaded("FL") /\ Loaded("tracking")
    /\ res.ret[4] = ERR_OD_VALUE
    /\ RLt(res.ret[3], calData.flMin)
    /\ SameWithOD(R(2)).ret[1] # 0
    /\ SameWithOD(R(2)).ret[4] = ERR_RANGE_MIN

====
